---- MODULE Spec2Model ----
(***************************************************************************)
(* Model of src/server.py, the Manus MCP bridge: three configuration       *)
(* values read from the environment at import, five tool operations, and   *)
(* the shared response handler.  Every remote operation builds a request,  *)
(* opens a scoped httpx.Client, sends one request, turns the response into *)
(* a result with _handle_response, and leaves the with-block.              *)
(*                                                                         *)
(* Python values:                                                          *)
(*   None is <<>>, any other value x of an Optional parameter is <<x>>;    *)
(*   a dict is a function from its keys; a tool call's arguments are the   *)
(*   dict of the parameters the caller supplied (an omitted parameter is   *)
(*   not in its domain and takes the default of the signature);            *)
(*   a decoded JSON value is a tagged record (JStr, JNull, JBool, JNum,    *)
(*   JArr, JObj); a decoded object keeps its keys in the order of the      *)
(*   text, as a sequence of <<key, value>> pairs; numbers are integers.    *)
(*                                                                         *)
(* A response is what httpx hands back: the status code and the reason     *)
(* phrase of the status line, the Location header if there is one, the     *)
(* body text, and the request it answers.                                  *)
(***************************************************************************)
EXTENDS Integers, Sequences, FiniteSets, TLC

VARIABLES
    environ,              \* os.environ at import: the variables that are set
    MANUS_API_KEY,        \* server.py:12
    MANUS_API_BASE,       \* server.py:13
    MANUS_AGENT_PROFILE,  \* server.py:14
    calls,                \* the invocations the hosting runtime is running
    open_clients          \* httpx.Client objects created and not yet closed

vars == <<environ, MANUS_API_KEY, MANUS_API_BASE, MANUS_AGENT_PROFILE,
          calls, open_clients>>

config == <<MANUS_API_KEY, MANUS_API_BASE, MANUS_AGENT_PROFILE>>

----------------------------------------------------------------------------
(* Bounds and program constants *)

\* How many invocations the hosting runtime runs at once in ConcSpec.
MaxConcurrent == 2

\* create_task / continue_task: httpx.Client(timeout=60.0)
WRITE_TIMEOUT == 60
\* get_task_status / list_tasks: httpx.Client(timeout=30.0)
READ_TIMEOUT == 30
\* list_tasks: the signature's default of limit
LIMIT_DEFAULT == 20
\* list_tasks: the fallback of `limit or 20`
LIMIT_FALLBACK == 20

----------------------------------------------------------------------------
(* Python values *)

None == <<>>
Some(x) == <<x>>

\* bool(v) of an Optional[str]: None and "" are falsy.
TruthyStr(v) == v # None /\ v[1] # ""
\* bool(v) of an Optional[int]: None and 0 are falsy.
TruthyInt(v) == v # None /\ v[1] # 0

\* `v or default` for an Optional[str] v and a str default.
OrStr(v, default) == IF TruthyStr(v) THEN v[1] ELSE default
\* `v or default` for an Optional[int] v and an int default.
OrInt(v, default) == IF TruthyInt(v) THEN v[1] ELSE default

\* The value a parameter is bound to: the argument when the caller supplies
\* one, the default of the signature otherwise.
Bind(kwargs, name, default) ==
    IF name \in DOMAIN kwargs THEN kwargs[name] ELSE default

\* Decoded JSON values.
JStr(s) == [t |-> "str", v |-> s]
JNull == [t |-> "null"]
JBool(b) == [t |-> "bool", v |-> b]
JNum(n) == [t |-> "num", v |-> n]
JArr(s) == [t |-> "array", v |-> s]
JObj(pairs) == [t |-> "object", v |-> pairs]

\* `key in d` and d[key] of a decoded object.
DictHas(pairs, key) == \E k \in DOMAIN pairs : pairs[k][1] = key
DictGet(pairs, key) ==
    pairs[CHOOSE k \in DOMAIN pairs : pairs[k][1] = key][2]

\* str(v) of a decoded JSON scalar, as an f-string formats it: a str as it
\* is, None, True or False, an integer in decimal.
PyStr(j) ==
    CASE j.t = "str" -> j.v
      [] j.t = "null" -> "None"
      [] j.t = "bool" -> IF j.v THEN "True" ELSE "False"
      [] j.t = "num" -> ToString(j.v)

----------------------------------------------------------------------------
(* Configuration: server.py:12-14 *)

API_BASE_DEFAULT == "https://api.manus.im/v1"
AGENT_PROFILE_DEFAULT == "manus-1.6"

\* os.environ.get(name, default)
EnvironGet(env, name, default) ==
    IF name \in DOMAIN env THEN env[name] ELSE default

LoadApiKey(env) == EnvironGet(env, "MANUS_API_KEY", "")
LoadApiBase(env) == EnvironGet(env, "MANUS_API_BASE", API_BASE_DEFAULT)
LoadAgentProfile(env) ==
    EnvironGet(env, "MANUS_AGENT_PROFILE", AGENT_PROFILE_DEFAULT)

\* server.py:19-24
_get_headers ==
    ("API_KEY" :> MANUS_API_KEY) @@ ("Content-Type" :> "application/json")

----------------------------------------------------------------------------
(* The remote side: responses and what httpx makes of them *)

BODY_HTML == "<html>Bad Gateway</html>"
BODY_MESSAGE == "{\"message\": \"not found\"}"
BODY_TASK == "{\"task_id\": \"t1\"}"
BODY_LIST == "[]"
BODY_NULL_MESSAGE == "{\"message\": null}"
BODY_NUMBER_MESSAGE == "{\"message\": -7}"
BODY_FALSE_MESSAGE == "{\"message\": false}"

\* Whether response.json() decodes the body (json.loads raises otherwise).
IsJson(text) ==
    text \in {BODY_MESSAGE, BODY_TASK, BODY_LIST, BODY_NULL_MESSAGE,
              BODY_NUMBER_MESSAGE, BODY_FALSE_MESSAGE}

\* response.json() of a decodable body.
JsonLoads(text) ==
    CASE text = BODY_MESSAGE -> JObj(<< <<"message", JStr("not found")>> >>)
      [] text = BODY_TASK -> JObj(<< <<"task_id", JStr("t1")>> >>)
      [] text = BODY_LIST -> JArr(<<>>)
      [] text = BODY_NULL_MESSAGE -> JObj(<< <<"message", JNull>> >>)
      [] text = BODY_NUMBER_MESSAGE -> JObj(<< <<"message", JNum(-7)>> >>)
      [] text = BODY_FALSE_MESSAGE -> JObj(<< <<"message", JBool(FALSE)>> >>)

\* httpx.Response.is_success
IsSuccess(status_code) == status_code >= 200 /\ status_code <= 299

\* httpx.Response.has_redirect_location
HasRedirectLocation(response) ==
    /\ response.status_code \in {301, 302, 303, 307, 308}
    /\ response.location # None

\* `c in s` for a one-character string c.
HasChar(s, c) == \E k \in 1..Len(s) : SubSeq(s, k, k) = c

\* The characters that URL encoding leaves as they are.
UNRESERVED ==
    "ABCDEFGHIJKLMNOPQRSTUVWXYZabcdefghijklmnopqrstuvwxyz0123456789-._~"
IsUnreserved(s) == \A k \in 1..Len(s) : HasChar(UNRESERVED, SubSeq(s, k, k))

\* A query value as httpx encodes it, for a value of unreserved characters:
\* as it is.
QueryValue(s) == CASE IsUnreserved(s) -> s

\* The query string httpx makes of list_tasks' params, in the order the
\* dict was filled; the one-element list of status gives one status item.
QueryString(params) ==
    "?limit=" \o ToString(params["limit"])
        \o (IF "status" \in DOMAIN params
            THEN "&status=" \o QueryValue(params["status"][1]) ELSE "")
        \o (IF "project_id" \in DOMAIN params
            THEN "&project_id=" \o QueryValue(params["project_id"]) ELSE "")

\* The base URLs of the environments the model draws.
BASE_URLS == {API_BASE_DEFAULT, "http://localhost:9000/v1"}

\* Whether httpx keeps the URL as the program wrote it: one of BASE_URLS,
\* /tasks and at most one more segment of unreserved characters that is
\* not a dot segment.
KeptAsWritten(url) ==
    \E base \in BASE_URLS :
        \/ url = base \o "/tasks"
        \/ LET head == base \o "/tasks/"
           IN  /\ Len(url) >= Len(head)
               /\ SubSeq(url, 1, Len(head)) = head
               /\ LET segment == SubSeq(url, Len(head) + 1, Len(url))
                  IN  IsUnreserved(segment) /\ segment \notin {".", ".."}

\* str(response.request.url): the URL of the request with its query string,
\* for a URL httpx keeps as written.
RequestUrl(request) ==
    CASE KeptAsWritten(request.url) ->
             IF "params" \in DOMAIN request
             THEN request.url \o QueryString(request.params)
             ELSE request.url

\* The class of the status in the text of an HTTPStatusError.
ErrorType(status_code) ==
    CASE status_code \div 100 = 1 -> "Informational response"
      [] status_code \div 100 = 3 -> "Redirect response"
      [] status_code \div 100 = 4 -> "Client error"
      [] status_code \div 100 = 5 -> "Server error"
      [] OTHER -> "Invalid status code"

\* str(e) of the httpx.HTTPStatusError that raise_for_status() raises for a
\* response outside 2xx.
HTTPStatusErrorStr(response) ==
    ErrorType(response.status_code) \o " '" \o ToString(response.status_code)
        \o " " \o response.reason_phrase \o "' for url '"
        \o RequestUrl(response.request) \o "'\n"
        \o (IF HasRedirectLocation(response)
            THEN "Redirect location: '" \o response.location[1] \o "'\n"
            ELSE "")
        \o "For more information check: "
        \o "https://developer.mozilla.org/en-US/docs/Web/HTTP/Status/"
        \o ToString(response.status_code)

\* The response the client hands back for a request.  location is the
\* Location header, None when the response has none.
Response(request, status_code, reason_phrase, location, text) ==
    [status_code |-> status_code, reason_phrase |-> reason_phrase,
     location |-> location, text |-> text, request |-> request]

----------------------------------------------------------------------------
(* _handle_response: server.py:27-39 *)

Return(value) == [kind |-> "return", value |-> value]
Raise(exc) == [kind |-> "raise", exc |-> exc]

\* server.py:33-38: the message of the error envelope.
ErrorMsg(response) ==
    LET e == HTTPStatusErrorStr(response)
    IN  IF IsJson(response.text)
        THEN LET error_body == JsonLoads(response.text)
             IN IF error_body.t = "object"
                THEN IF DictHas(error_body.v, "message")
                     THEN "Manus API Error: "
                              \o PyStr(DictGet(error_body.v, "message"))
                     ELSE "Manus API Error: " \o e
                ELSE "Manus API Error: " \o e   \* .get raises, `except: pass`
        ELSE "Manus API Error: " \o e           \* .json() raises, `except: pass`

\* _handle_response without the inner try/except around response.json().
HandleResponseNoInnerTry(response) ==
    IF IsSuccess(response.status_code)
    THEN IF IsJson(response.text)
         THEN Return(JsonLoads(response.text))
         ELSE Raise("JSONDecodeError")
    ELSE IF IsJson(response.text)
         THEN IF JsonLoads(response.text).t = "object"
              THEN Return([error |-> ErrorMsg(response),
                           status_code |-> response.status_code])
              ELSE Raise("AttributeError")
         ELSE Raise("JSONDecodeError")

_handle_response(response) ==
    IF IsSuccess(response.status_code)
    THEN IF IsJson(response.text)
         THEN Return(JsonLoads(response.text))
         ELSE Raise("JSONDecodeError")    \* not an HTTPStatusError: not caught
    ELSE Return([error |-> ErrorMsg(response),
                 status_code |-> response.status_code])

----------------------------------------------------------------------------
(* The requests the operations build *)

\* create_task sending the configured profile whatever the caller passes.
CreateTaskPayloadNoOverride(prompt, agent_profile, task_mode, project_id) ==
    LET payload == [prompt |-> prompt,
                    agentProfile |-> MANUS_AGENT_PROFILE,
                    taskMode |-> OrStr(task_mode, "agent")]
    IN  IF TruthyStr(project_id)
        THEN payload @@ ("projectId" :> project_id[1])
        ELSE payload

\* server.py:58-67
CreateTaskPayload(prompt, agent_profile, task_mode, project_id) ==
    LET payload == [prompt |-> prompt,
                    agentProfile |-> OrStr(agent_profile, MANUS_AGENT_PROFILE),
                    taskMode |-> OrStr(task_mode, "agent")]
    IN  IF TruthyStr(project_id)
        THEN payload @@ ("projectId" :> project_id[1])
        ELSE payload

\* list_tasks sending the fallback limit whatever the caller passes.
ListTasksParamsFixedLimit(status, limit, project_id) ==
    LET p0 == ("limit" :> LIMIT_FALLBACK)
        p1 == IF TruthyStr(status) THEN p0 @@ ("status" :> <<status[1]>>) ELSE p0
    IN  IF TruthyStr(project_id)
        THEN p1 @@ ("project_id" :> project_id[1])
        ELSE p1

\* list_tasks sending status whenever it is not None, the empty string too.
ListTasksParamsStatusNotNone(status, limit, project_id) ==
    LET p0 == ("limit" :> OrInt(limit, LIMIT_FALLBACK))
        p1 == IF status # None THEN p0 @@ ("status" :> <<status[1]>>) ELSE p0
    IN  IF TruthyStr(project_id)
        THEN p1 @@ ("project_id" :> project_id[1])
        ELSE p1

\* server.py:92-97
ListTasksParams(status, limit, project_id) ==
    LET p0 == ("limit" :> OrInt(limit, LIMIT_FALLBACK))
        p1 == IF TruthyStr(status) THEN p0 @@ ("status" :> <<status[1]>>) ELSE p0
    IN  IF TruthyStr(project_id)
        THEN p1 @@ ("project_id" :> project_id[1])
        ELSE p1

\* continue_task sending the built-in profile name, not the configured one.
ContinueTaskPayloadBuiltIn(task_id, prompt) ==
    [prompt |-> prompt, agentProfile |-> AGENT_PROFILE_DEFAULT, taskId |-> task_id]

\* server.py:109-113
ContinueTaskPayload(task_id, prompt) ==
    [prompt |-> prompt, agentProfile |-> MANUS_AGENT_PROFILE, taskId |-> task_id]

\* server.py:58, 69-70
CreateTaskRequest(kwargs) ==
    [method |-> "POST", url |-> MANUS_API_BASE \o "/tasks",
     timeout |-> WRITE_TIMEOUT,
     json |-> CreateTaskPayload(kwargs["prompt"],
                                Bind(kwargs, "agent_profile", None),
                                Bind(kwargs, "task_mode", Some("agent")),
                                Bind(kwargs, "project_id", None))]

\* server.py:77-80
GetTaskStatusRequest(kwargs) ==
    [method |-> "GET", url |-> MANUS_API_BASE \o "/tasks/" \o kwargs["task_id"],
     timeout |-> READ_TIMEOUT]

\* server.py:91-100
ListTasksRequest(kwargs) ==
    [method |-> "GET", url |-> MANUS_API_BASE \o "/tasks",
     timeout |-> READ_TIMEOUT,
     params |-> ListTasksParams(Bind(kwargs, "status", None),
                                Bind(kwargs, "limit", Some(LIMIT_DEFAULT)),
                                Bind(kwargs, "project_id", None))]

\* server.py:107-116
ContinueTaskRequest(kwargs) ==
    [method |-> "POST", url |-> MANUS_API_BASE \o "/tasks",
     timeout |-> WRITE_TIMEOUT,
     json |-> ContinueTaskPayload(kwargs["task_id"], kwargs["prompt"])]

\* get_server_info reporting the built-in base URL, not the configured one.
ServerInfoBuiltInBase ==
    [server_name |-> "Manus AI MCP Server",
     version |-> "1.0.0",
     description |-> "Bridge between Poke AI and Manus AI",
     manus_api_base |-> API_BASE_DEFAULT,
     agent_profile |-> MANUS_AGENT_PROFILE]

\* server.py:123-129
ServerInfo ==
    [server_name |-> "Manus AI MCP Server",
     version |-> "1.0.0",
     description |-> "Bridge between Poke AI and Manus AI",
     manus_api_base |-> MANUS_API_BASE,
     agent_profile |-> MANUS_AGENT_PROFILE]

\* What an operation has built when it enters its with-block: the method, the
\* URL, the payload or query parameters, and the client's timeout.
BuildRequest(op, kwargs) ==
    CASE op = "create_task" -> CreateTaskRequest(kwargs)
      [] op = "get_task_status" -> GetTaskStatusRequest(kwargs)
      [] op = "list_tasks" -> ListTasksRequest(kwargs)
      [] op = "continue_task" -> ContinueTaskRequest(kwargs)

\* client.post / client.get: the request on the wire carries _get_headers().
Outbound(request) == request @@ ("headers" :> _get_headers)

----------------------------------------------------------------------------
(* Inputs *)

\* An argument a caller may leave out: <<>> when omitted, <<v>> when supplied.
Opt(name, choice) == IF choice = <<>> THEN <<>> ELSE name :> choice[1]

Environments ==
    { Opt("MANUS_API_KEY", k) @@ Opt("MANUS_API_BASE", b)
          @@ Opt("MANUS_AGENT_PROFILE", p) :
        k \in {<<>>, <<"sk-test">>},
        b \in {<<>>, <<"http://localhost:9000/v1">>},
        p \in {<<>>, <<"manus-1.6-lite">>} }

AgentProfileArgs == {<<>>, <<None>>, <<Some("")>>, <<Some("manus-1.6-max")>>}
TaskModeArgs == {<<>>, <<Some("")>>, <<Some("chat")>>}
ProjectIdArgs == {<<>>, <<Some("")>>, <<Some("proj-1")>>}
StatusArgs == {<<>>, <<None>>, <<Some("")>>, <<Some("completed")>>}
LimitArgs == {<<>>, <<None>>, <<Some(0)>>, <<Some(5)>>, <<Some(-1)>>}

CreateTaskCalls ==
    { ("prompt" :> "research llamas") @@ Opt("agent_profile", a)
          @@ Opt("task_mode", m) @@ Opt("project_id", p) :
        a \in AgentProfileArgs, m \in TaskModeArgs, p \in ProjectIdArgs }
GetTaskStatusCalls == { [task_id |-> t] : t \in {"t1", "t2"} }
ListTasksCalls ==
    { Opt("status", s) @@ Opt("limit", l) @@ Opt("project_id", p) :
        s \in StatusArgs, l \in LimitArgs, p \in ProjectIdArgs }
ContinueTaskCalls ==
    { [task_id |-> t, prompt |-> p] :
        t \in {"t1", "manus-1.6-max"}, p \in {"", "go on"} }

\* Status lines: the status code and the reason phrase the server sends
\* with it, the standard one or one of its own.
Statuses ==
    { <<200, "OK">>, <<302, "Found">>, <<404, "Not Found">>,
      <<500, "Internal Server Error">>, <<500, "Backend Down">> }
\* The Location header of a response: absent or present.
Locations == {None, Some("https://manus.im/login")}
Bodies ==
    {BODY_HTML, BODY_MESSAGE, BODY_TASK, BODY_LIST, BODY_NULL_MESSAGE,
     BODY_NUMBER_MESSAGE, BODY_FALSE_MESSAGE}
TransportErrors == {"ConnectError", "ReadTimeout"}

\* The smaller inputs of the concurrent specification.
ConcEnvironments ==
    { Opt("MANUS_AGENT_PROFILE", p) : p \in {<<>>, <<"manus-1.6-lite">>} }
ConcCreateTaskCalls ==
    { ("prompt" :> "research llamas") @@ Opt("agent_profile", a) :
        a \in {<<>>, <<Some("manus-1.6-max")>>} }
ConcGetTaskStatusCalls == { [task_id |-> "t1"] }
ConcListTasksCalls == { <<>> }
ConcContinueTaskCalls == { [task_id |-> "t1", prompt |-> "go on"] }
ConcStatuses == { <<200, "OK">>, <<404, "Not Found">> }
ConcLocations == {None}
ConcBodies == {BODY_MESSAGE}
ConcTransportErrors == {"ConnectError"}

----------------------------------------------------------------------------
(* State *)

RemoteOps == {"create_task", "get_task_status", "list_tasks", "continue_task"}

\* A slot of the hosting runtime that runs no invocation.
Idle ==
    [pc |-> "idle", op |-> "none", kwargs |-> <<>>, request |-> <<>>,
     client |-> "none", sent |-> <<>>, response |-> <<>>, outcome |-> <<>>]

LoadConfig(env) ==
    /\ environ = env
    /\ MANUS_API_KEY = LoadApiKey(env)
    /\ MANUS_API_BASE = LoadApiBase(env)
    /\ MANUS_AGENT_PROFILE = LoadAgentProfile(env)

\* One invocation at a time.
Init ==
    /\ \E env \in Environments : LoadConfig(env)
    /\ calls = [i \in {1} |-> Idle]
    /\ open_clients = 0

\* Up to MaxConcurrent invocations at a time.
ConcInit ==
    /\ \E env \in ConcEnvironments : LoadConfig(env)
    /\ calls = [i \in 1..MaxConcurrent |-> Idle]
    /\ open_clients = 0

----------------------------------------------------------------------------
(* Operations *)

\* A remote operation up to the head of its with-block: the request is built
\* and the scoped httpx.Client is created.
EnterWith(i, op, kwargs) ==
    /\ calls[i].pc = "idle"
    /\ calls' = [calls EXCEPT ![i] =
                    [pc |-> "open", op |-> op, kwargs |-> kwargs,
                     request |-> <<BuildRequest(op, kwargs)>>,
                     client |-> "open", sent |-> <<>>,
                     response |-> <<>>, outcome |-> <<>>]]
    /\ open_clients' = open_clients + 1
    /\ UNCHANGED <<environ, config>>

\* create_task storing the caller's profile in the module global.
CreateTaskSetsGlobal(i, kwargs) ==
    /\ calls[i].pc = "idle"
    /\ MANUS_AGENT_PROFILE' =
           OrStr(Bind(kwargs, "agent_profile", None), MANUS_AGENT_PROFILE)
    /\ calls' = [calls EXCEPT ![i] =
                    [pc |-> "open", op |-> "create_task", kwargs |-> kwargs,
                     request |-> <<BuildRequest("create_task", kwargs)>>,
                     client |-> "open", sent |-> <<>>,
                     response |-> <<>>, outcome |-> <<>>]]
    /\ open_clients' = open_clients + 1
    /\ UNCHANGED <<environ, MANUS_API_KEY, MANUS_API_BASE>>

create_task(i, kwargs) == EnterWith(i, "create_task", kwargs)

get_task_status(i, kwargs) == EnterWith(i, "get_task_status", kwargs)

list_tasks(i, kwargs) == EnterWith(i, "list_tasks", kwargs)

continue_task(i, kwargs) == EnterWith(i, "continue_task", kwargs)

\* server.py:121-129: returns at once, no client, no request.
get_server_info(i) ==
    /\ calls[i].pc = "idle"
    /\ calls' = [calls EXCEPT ![i] =
                    [Idle EXCEPT !.pc = "done", !.op = "get_server_info",
                                 !.outcome = <<Return(ServerInfo)>>]]
    /\ UNCHANGED <<environ, config, open_clients>>

\* client.post(...) / client.get(...): the request goes out.
Send(i) ==
    /\ calls[i].pc = "open"
    /\ calls' = [calls EXCEPT ![i].pc = "waiting",
                              ![i].sent = Append(@, Outbound(calls[i].request[1]))]
    /\ UNCHANGED <<environ, config, open_clients>>

\* A handler that sends the request again after a 5xx response.
ReceiveRetry5xx(i, status_code, reason_phrase, location, text) ==
    /\ calls[i].pc = "waiting"
    /\ LET response ==
           Response(calls[i].sent[1], status_code, reason_phrase, location, text)
       IN IF status_code >= 500 /\ Len(calls[i].sent) < 3
          THEN calls' = [calls EXCEPT ![i].pc = "open"]
          ELSE calls' = [calls EXCEPT ![i].pc = "exiting",
                                      ![i].response = <<response>>,
                                      ![i].outcome = <<_handle_response(response)>>]
    /\ UNCHANGED <<environ, config, open_clients>>

\* The response arrives and `return _handle_response(response)` runs.
Receive(i, status_code, reason_phrase, location, text) ==
    /\ calls[i].pc = "waiting"
    /\ LET response ==
           Response(calls[i].sent[1], status_code, reason_phrase, location, text)
       IN calls' = [calls EXCEPT ![i].pc = "exiting",
                                 ![i].response = <<response>>,
                                 ![i].outcome = <<_handle_response(response)>>]
    /\ UNCHANGED <<environ, config, open_clients>>

\* The request fails in the transport: client.post / client.get raises.
TransportFailure(i, exc) ==
    /\ calls[i].pc = "waiting"
    /\ calls' = [calls EXCEPT ![i].pc = "exiting", ![i].outcome = <<Raise(exc)>>]
    /\ UNCHANGED <<environ, config, open_clients>>

\* A client closed by a close() after the request, which an exception skips.
ExitWithoutContextManager(i) ==
    /\ calls[i].pc = "exiting"
    /\ IF calls[i].outcome[1].kind = "raise"
       THEN /\ calls' = [calls EXCEPT ![i].pc = "done"]
            /\ UNCHANGED open_clients
       ELSE /\ calls' = [calls EXCEPT ![i].pc = "done", ![i].client = "closed"]
            /\ open_clients' = open_clients - 1
    /\ UNCHANGED <<environ, config>>

\* The with-block is left, by return or by exception: Client.__exit__ closes.
ExitWith(i) ==
    /\ calls[i].pc = "exiting"
    /\ calls' = [calls EXCEPT ![i].pc = "done", ![i].client = "closed"]
    /\ open_clients' = open_clients - 1
    /\ UNCHANGED <<environ, config>>

\* The hosting runtime hands the result (or the failure) on; the slot is free.
Complete(i) ==
    /\ calls[i].pc = "done"
    /\ calls' = [calls EXCEPT ![i] = Idle]
    /\ UNCHANGED <<environ, config, open_clients>>

Next ==
    \/ \E i \in DOMAIN calls, kwargs \in CreateTaskCalls : create_task(i, kwargs)
    \/ \E i \in DOMAIN calls, kwargs \in GetTaskStatusCalls :
           get_task_status(i, kwargs)
    \/ \E i \in DOMAIN calls, kwargs \in ListTasksCalls : list_tasks(i, kwargs)
    \/ \E i \in DOMAIN calls, kwargs \in ContinueTaskCalls :
           continue_task(i, kwargs)
    \/ \E i \in DOMAIN calls : get_server_info(i)
    \/ \E i \in DOMAIN calls : Send(i)
    \/ \E i \in DOMAIN calls, s \in Statuses, l \in Locations, b \in Bodies :
           Receive(i, s[1], s[2], l, b)
    \/ \E i \in DOMAIN calls, exc \in TransportErrors : TransportFailure(i, exc)
    \/ \E i \in DOMAIN calls : ExitWith(i)
    \/ \E i \in DOMAIN calls : Complete(i)

ConcNext ==
    \/ \E i \in DOMAIN calls, kwargs \in ConcCreateTaskCalls :
           create_task(i, kwargs)
    \/ \E i \in DOMAIN calls, kwargs \in ConcGetTaskStatusCalls :
           get_task_status(i, kwargs)
    \/ \E i \in DOMAIN calls, kwargs \in ConcListTasksCalls :
           list_tasks(i, kwargs)
    \/ \E i \in DOMAIN calls, kwargs \in ConcContinueTaskCalls :
           continue_task(i, kwargs)
    \/ \E i \in DOMAIN calls : get_server_info(i)
    \/ \E i \in DOMAIN calls : Send(i)
    \/ \E i \in DOMAIN calls, s \in ConcStatuses, l \in ConcLocations,
             b \in ConcBodies :
           Receive(i, s[1], s[2], l, b)
    \/ \E i \in DOMAIN calls, exc \in ConcTransportErrors :
           TransportFailure(i, exc)
    \/ \E i \in DOMAIN calls : ExitWith(i)
    \/ \E i \in DOMAIN calls : Complete(i)

Spec == Init /\ [][Next]_vars

ConcSpec == ConcInit /\ [][ConcNext]_vars

----------------------------------------------------------------------------
(* Properties *)

Call(i) == calls[i]
Slots == DOMAIN calls

\* Whether the caller passed a value (not None) for the parameter.
Supplied(kwargs, name) == name \in DOMAIN kwargs /\ kwargs[name] # None
\* Whether the caller passed a non-empty string for the parameter.
SuppliedNonEmpty(kwargs, name) == Supplied(kwargs, name) /\ kwargs[name][1] # ""

\* The request an invocation has put on the wire.
Wire(i) == Call(i).sent[1]

IsErrorEnvelope(value, status_code) ==
    /\ DOMAIN value = {"error", "status_code"}
    /\ value.status_code = status_code

\* C1 (as claimed): every response an invocation receives, whatever its status
\* and body, ends as a returned value that is the decoded JSON body or an
\* {error, status_code} mapping; no response makes the operation raise.
C1_EveryResponseBecomesAnEnvelope ==
    \A i \in Slots :
        Call(i).response # <<>> =>
            LET r == Call(i).response[1]
                o == Call(i).outcome[1]
            IN  /\ o.kind = "return"
                /\ \/ IsJson(r.text) /\ o.value = JsonLoads(r.text)
                   \/ IsErrorEnvelope(o.value, r.status_code)

\* C2: a non-2xx response never raises; the result is {error, status_code}
\* with the response's status and a non-empty error that starts with
\* "Manus API Error: " and goes on with the body's message (as str() gives
\* it) when the body is a JSON object with a message field, and with the text
\* of the HTTPStatusError otherwise (a body that is not JSON, JSON that is
\* not an object, an object without a message): that text ends with the
\* reference for the status, and is spelled out for a redirect with a
\* Location answering create_task, a 404 answering get_task_status("t1"),
\* and a 500 with the server's own reason phrase answering a filtered
\* list_tasks under a configured base URL.
C2_Non2xxBecomesErrorEnvelope ==
    \A i \in Slots :
        (Call(i).response # <<>> /\ ~IsSuccess(Call(i).response[1].status_code)) =>
            LET r == Call(i).response[1]
                o == Call(i).outcome[1]
                fallback == r.text \in {BODY_HTML, BODY_LIST, BODY_TASK}
                reference ==
                    "\nFor more information check: https://developer.mozilla.org"
                        \o "/en-US/docs/Web/HTTP/Status/" \o ToString(r.status_code)
            IN  /\ o.kind = "return"
                /\ IsErrorEnvelope(o.value, r.status_code)
                /\ o.value.error # ""
                /\ Len(o.value.error) >= 17
                /\ SubSeq(o.value.error, 1, 17) = "Manus API Error: "
                /\ r.text = BODY_MESSAGE =>
                       o.value.error = "Manus API Error: not found"
                /\ r.text = BODY_NULL_MESSAGE =>
                       o.value.error = "Manus API Error: None"
                /\ r.text = BODY_NUMBER_MESSAGE =>
                       o.value.error = "Manus API Error: -7"
                /\ r.text = BODY_FALSE_MESSAGE =>
                       o.value.error = "Manus API Error: False"
                /\ fallback =>
                       /\ Len(o.value.error) > 17 + Len(reference)
                       /\ SubSeq(o.value.error,
                                 Len(o.value.error) - Len(reference) + 1,
                                 Len(o.value.error)) = reference
                /\ ( /\ fallback
                     /\ Call(i).op = "create_task"
                     /\ MANUS_API_BASE = "https://api.manus.im/v1"
                     /\ r.status_code = 302 /\ r.reason_phrase = "Found"
                     /\ r.location = Some("https://manus.im/login") ) =>
                       o.value.error =
                           "Manus API Error: Redirect response '302 Found' for url "
                               \o "'https://api.manus.im/v1/tasks'\n"
                               \o "Redirect location: 'https://manus.im/login'\n"
                               \o "For more information check: https://developer."
                               \o "mozilla.org/en-US/docs/Web/HTTP/Status/302"
                /\ ( /\ fallback
                     /\ Call(i).op = "get_task_status"
                     /\ Call(i).kwargs = [task_id |-> "t1"]
                     /\ MANUS_API_BASE = "https://api.manus.im/v1"
                     /\ r.status_code = 404 /\ r.reason_phrase = "Not Found" ) =>
                       o.value.error =
                           "Manus API Error: Client error '404 Not Found' for url "
                               \o "'https://api.manus.im/v1/tasks/t1'\n"
                               \o "For more information check: https://developer."
                               \o "mozilla.org/en-US/docs/Web/HTTP/Status/404"
                /\ ( /\ fallback
                     /\ Call(i).op = "list_tasks"
                     /\ Call(i).kwargs =
                            [status |-> Some("completed"), limit |-> Some(5),
                             project_id |-> Some("proj-1")]
                     /\ MANUS_API_BASE = "http://localhost:9000/v1"
                     /\ r.status_code = 500 /\ r.reason_phrase = "Backend Down" ) =>
                       o.value.error =
                           "Manus API Error: Server error '500 Backend Down' for url "
                               \o "'http://localhost:9000/v1/tasks?limit=5"
                               \o "&status=completed&project_id=proj-1'\n"
                               \o "For more information check: https://developer."
                               \o "mozilla.org/en-US/docs/Web/HTTP/Status/500"

\* C2 witness: a 404 with body {"message": "not found"} has been turned into
\* {"error": "Manus API Error: not found", "status_code": 404}.
C2_Witness ==
    \E i \in Slots :
        /\ Call(i).response # <<>>
        /\ Call(i).response[1].status_code = 404
        /\ Call(i).response[1].text = BODY_MESSAGE
        /\ Call(i).outcome[1] =
               Return([error |-> "Manus API Error: not found", status_code |-> 404])

\* C3 (as claimed): create_task POSTs to {base}/tasks with agentProfile equal
\* to the caller's agent_profile for every string the caller supplies, and to
\* the configured default when none is supplied.
C3_AgentProfileForEveryString ==
    \A i \in Slots :
        (Call(i).op = "create_task" /\ Call(i).sent # <<>>) =>
            /\ Wire(i).method = "POST"
            /\ Wire(i).url = MANUS_API_BASE \o "/tasks"
            /\ Wire(i).json["agentProfile"] =
                   IF Supplied(Call(i).kwargs, "agent_profile")
                   THEN Call(i).kwargs["agent_profile"][1]
                   ELSE MANUS_AGENT_PROFILE

\* C3 (amended): create_task POSTs to {base}/tasks with agentProfile equal to
\* the caller's agent_profile when it is a non-empty string, and to the
\* configured default when it is omitted, None or the empty string.
C3_AgentProfileWhenNonEmpty ==
    \A i \in Slots :
        (Call(i).op = "create_task" /\ Call(i).sent # <<>>) =>
            /\ Wire(i).method = "POST"
            /\ Wire(i).url = MANUS_API_BASE \o "/tasks"
            /\ Wire(i).json["agentProfile"] =
                   IF SuppliedNonEmpty(Call(i).kwargs, "agent_profile")
                   THEN Call(i).kwargs["agent_profile"][1]
                   ELSE MANUS_AGENT_PROFILE

\* C3 witness: a create_task with agent_profile "manus-1.6-max" has sent it,
\* under a configuration whose default is another profile.
C3_Witness ==
    \E i \in Slots :
        /\ Call(i).op = "create_task"
        /\ Call(i).sent # <<>>
        /\ Supplied(Call(i).kwargs, "agent_profile")
        /\ Call(i).kwargs["agent_profile"] = Some("manus-1.6-max")
        /\ Wire(i).json["agentProfile"] = "manus-1.6-max"
        /\ MANUS_AGENT_PROFILE = "manus-1.6-lite"

\* C4: continue_task POSTs to {base}/tasks a body of exactly the given prompt,
\* taskId equal to the given task_id and agentProfile equal to the configured
\* default, whatever the arguments.
C4_ContinueTaskSendsConfiguredProfile ==
    \A i \in Slots :
        (Call(i).op = "continue_task" /\ Call(i).sent # <<>>) =>
            /\ Wire(i).method = "POST"
            /\ Wire(i).url = MANUS_API_BASE \o "/tasks"
            /\ Wire(i).json = [prompt |-> Call(i).kwargs["prompt"],
                               taskId |-> Call(i).kwargs["task_id"],
                               agentProfile |-> MANUS_AGENT_PROFILE]
            /\ MANUS_AGENT_PROFILE = LoadAgentProfile(environ)

\* C4 witness: a continue_task whose task_id reads like a profile name has
\* sent the configured (environment-set) profile.
C4_Witness ==
    \E i \in Slots :
        /\ Call(i).op = "continue_task"
        /\ Call(i).sent # <<>>
        /\ Call(i).kwargs["task_id"] = "manus-1.6-max"
        /\ "MANUS_AGENT_PROFILE" \in DOMAIN environ
        /\ Wire(i).json["agentProfile"] = "manus-1.6-lite"

\* C5 (as claimed): list_tasks always sends limit: the caller's limit for
\* every integer the caller supplies, 20 when none is supplied.
C5_LimitForEveryInteger ==
    \A i \in Slots :
        (Call(i).op = "list_tasks" /\ Call(i).sent # <<>>) =>
            /\ "limit" \in DOMAIN Wire(i).params
            /\ Wire(i).params["limit"] =
                   IF Supplied(Call(i).kwargs, "limit")
                   THEN Call(i).kwargs["limit"][1]
                   ELSE 20

\* C5 (amended): list_tasks always sends limit: the caller's limit when it is
\* a non-zero integer, 20 when limit is omitted, None or 0.
C5_LimitWhenNonZero ==
    \A i \in Slots :
        (Call(i).op = "list_tasks" /\ Call(i).sent # <<>>) =>
            /\ "limit" \in DOMAIN Wire(i).params
            /\ Wire(i).params["limit"] =
                   IF Supplied(Call(i).kwargs, "limit")
                      /\ Call(i).kwargs["limit"][1] # 0
                   THEN Call(i).kwargs["limit"][1]
                   ELSE 20

\* C5 witness: a list_tasks with limit 5 has sent limit=5.
C5_Witness ==
    \E i \in Slots :
        /\ Call(i).op = "list_tasks"
        /\ Call(i).sent # <<>>
        /\ Supplied(Call(i).kwargs, "limit")
        /\ Call(i).kwargs["limit"] = Some(5)
        /\ Wire(i).params["limit"] = 5

\* C6 (as claimed): list_tasks sends status exactly when the caller supplies
\* status, as the one-element list of it, and project_id exactly when the
\* caller supplies project_id; with no arguments it sends limit=20 only.
C6_FiltersWheneverSupplied ==
    \A i \in Slots :
        (Call(i).op = "list_tasks" /\ Call(i).sent # <<>>) =>
            /\ "status" \in DOMAIN Wire(i).params <=> Supplied(Call(i).kwargs, "status")
            /\ "status" \in DOMAIN Wire(i).params =>
                   Wire(i).params["status"] = <<Call(i).kwargs["status"][1]>>
            /\ "project_id" \in DOMAIN Wire(i).params
                   <=> Supplied(Call(i).kwargs, "project_id")
            /\ "project_id" \in DOMAIN Wire(i).params =>
                   Wire(i).params["project_id"] = Call(i).kwargs["project_id"][1]
            /\ DOMAIN Call(i).kwargs = {} => DOMAIN Wire(i).params = {"limit"}
            /\ DOMAIN Call(i).kwargs = {} => Wire(i).params["limit"] = 20

\* C6 (amended): list_tasks sends status exactly when the caller supplies a
\* non-empty status, as the one-element list of it, and project_id exactly
\* when the caller supplies a non-empty project_id; with no arguments it sends
\* limit=20 only.
C6_FiltersWhenNonEmpty ==
    \A i \in Slots :
        (Call(i).op = "list_tasks" /\ Call(i).sent # <<>>) =>
            /\ "status" \in DOMAIN Wire(i).params
                   <=> SuppliedNonEmpty(Call(i).kwargs, "status")
            /\ "status" \in DOMAIN Wire(i).params =>
                   Wire(i).params["status"] = <<Call(i).kwargs["status"][1]>>
            /\ "project_id" \in DOMAIN Wire(i).params
                   <=> SuppliedNonEmpty(Call(i).kwargs, "project_id")
            /\ "project_id" \in DOMAIN Wire(i).params =>
                   Wire(i).params["project_id"] = Call(i).kwargs["project_id"][1]
            /\ DOMAIN Call(i).kwargs = {} => DOMAIN Wire(i).params = {"limit"}
            /\ DOMAIN Call(i).kwargs = {} => Wire(i).params["limit"] = 20

\* C6 witness: list_tasks(status="completed") has sent status=["completed"]
\* and no project_id.
C6_Witness ==
    \E i \in Slots :
        /\ Call(i).op = "list_tasks"
        /\ Call(i).sent # <<>>
        /\ DOMAIN Call(i).kwargs = {"status"}
        /\ Call(i).kwargs["status"] = Some("completed")
        /\ Wire(i).params["status"] = <<"completed">>
        /\ "project_id" \notin DOMAIN Wire(i).params

\* The configuration is what was read from the environment at startup.
ConfigAsLoaded ==
    /\ MANUS_API_KEY = LoadApiKey(environ)
    /\ MANUS_API_BASE = LoadApiBase(environ)
    /\ MANUS_AGENT_PROFILE = LoadAgentProfile(environ)

\* The clients that exist are those of the invocations inside a with-block.
ClientsAreScoped ==
    open_clients = Cardinality({i \in Slots : Call(i).client = "open"})

\* C7: get_server_info sends nothing, opens no client, leaves the
\* configuration as loaded, and returns the three fixed fields with the
\* configured base URL and agent profile.
C7_ServerInfoIsPure ==
    /\ ConfigAsLoaded
    /\ \A i \in Slots :
        Call(i).op = "get_server_info" =>
            /\ Call(i).pc = "done"
            /\ Call(i).sent = <<>>
            /\ Call(i).client = "none"
            /\ open_clients = 0
            /\ Call(i).outcome =
                   <<Return([server_name |-> "Manus AI MCP Server",
                             version |-> "1.0.0",
                             description |-> "Bridge between Poke AI and Manus AI",
                             manus_api_base |-> LoadApiBase(environ),
                             agent_profile |-> LoadAgentProfile(environ)])>>

\* C7 witness: get_server_info has returned under a configured base URL.
C7_Witness ==
    \E i \in Slots :
        /\ Call(i).op = "get_server_info"
        /\ Call(i).pc = "done"
        /\ "MANUS_API_BASE" \in DOMAIN environ
        /\ Call(i).outcome[1].value.manus_api_base = "http://localhost:9000/v1"

\* C8: under any interleaving, the configuration stays what startup loaded,
\* every invocation holds and sends the request its own arguments give under
\* that configuration, its result is the handler's result for its own
\* response, and each invocation in a with-block has a client of its own.
C8_InvocationsDoNotInterfere ==
    /\ ConfigAsLoaded
    /\ ClientsAreScoped
    /\ \A i \in Slots :
        Call(i).op \in RemoteOps =>
            /\ Call(i).request = <<BuildRequest(Call(i).op, Call(i).kwargs)>>
            /\ Call(i).sent # <<>> =>
                   Call(i).sent =
                       <<Outbound(BuildRequest(Call(i).op, Call(i).kwargs))>>
            /\ Call(i).response # <<>> =>
                   /\ Call(i).response[1].request = Wire(i)
                   /\ Call(i).outcome = <<_handle_response(Call(i).response[1])>>

\* C8 witness: a create_task with a profile override has its result while a
\* continue_task, started meanwhile, waits with its own request on the wire.
C8_Witness ==
    \E i, j \in Slots :
        /\ i # j
        /\ Call(i).op = "create_task"
        /\ Supplied(Call(i).kwargs, "agent_profile")
        /\ Call(i).pc = "exiting"
        /\ Call(i).response # <<>>
        /\ Call(j).op = "continue_task"
        /\ Call(j).pc = "waiting"
        /\ Wire(j).json["agentProfile"] = LoadAgentProfile(environ)

\* C9: an invocation inside its with-block holds an open client, an invocation
\* that has ended holds none (it is closed), on every exit path, and no client
\* exists outside the running with-blocks.
C9_ClientReleasedOnEveryExit ==
    /\ ClientsAreScoped
    /\ \A i \in Slots :
        /\ Call(i).pc \in {"open", "waiting", "exiting"} => Call(i).client = "open"
        /\ (Call(i).pc = "done" /\ Call(i).op \in RemoteOps) =>
               Call(i).client = "closed"
        /\ Call(i).pc = "idle" => Call(i).client = "none"
    /\ (\A i \in Slots : Call(i).pc \in {"idle", "done"}) => open_clients = 0

\* C9 witness: an invocation has ended by a transport failure and its client
\* is closed.
C9_Witness ==
    \E i \in Slots :
        /\ Call(i).pc = "done"
        /\ Call(i).op \in RemoteOps
        /\ Call(i).outcome = <<Raise("ConnectError")>>
        /\ Call(i).client = "closed"
        /\ open_clients = 0

\* C10: a remote invocation has sent nothing before its send and exactly one
\* request from then on, also after an error response or a transport failure;
\* create_task and continue_task put at most one POST on the wire.
C10_ExactlyOneRequest ==
    \A i \in Slots :
        Call(i).op \in RemoteOps =>
            /\ Call(i).pc = "open" => Len(Call(i).sent) = 0
            /\ Call(i).pc \in {"waiting", "exiting", "done"} => Len(Call(i).sent) = 1
            /\ Call(i).op \in {"create_task", "continue_task"} =>
                   Cardinality({k \in DOMAIN Call(i).sent :
                                   Call(i).sent[k].method = "POST"}) <= 1

\* C10 witness: a create_task has ended after a 500 with one request sent.
C10_Witness ==
    \E i \in Slots :
        /\ Call(i).op = "create_task"
        /\ Call(i).pc = "done"
        /\ Call(i).response # <<>>
        /\ Call(i).response[1].status_code = 500
        /\ Len(Call(i).sent) = 1

====
